---------------------------- MODULE Spec2Model ----------------------------
(***************************************************************************)
(* Model of smart-rename's ai_rename.py: the filename sanitizer            *)
(* (sanitize_filename) and the straight-line driver (main) that asks an    *)
(* external text-generation service for a name, sanitizes it, re-appends   *)
(* the original extension and prints the result.                           *)
(*                                                                         *)
(* A Python str is a sequence of characters; a character is a one-element  *)
(* TLA+ string ("a", "/", "\\" for the backslash, "\t" for a tab).  The    *)
(* NUL control character has no TLA+ escape and is written Nul.            *)
(* The backtick cannot stand in a TLA+ string either and is written        *)
(* Backtick.                                                               *)
(* os.path is modelled as posixpath (the script is a '#!/usr/bin/env       *)
(* python3' tool): only "/" separates path components.                     *)
(***************************************************************************)
EXTENDS Integers, Sequences, FiniteSets, TLC

VARIABLES
    pc,              \* position of the running procedure
    filename,        \* test_sanitization: the input handed to sanitize_filename
    sanitized,       \* test_sanitization: sanitize_filename(filename)
    resanitized,     \* sanitize_filename applied to its own output
    dir,             \* a directory prefix put in front of filename
    dirSanitized,    \* sanitize_filename(dir + "/" + filename)
    original,        \* main: args.original
    original_ext,    \* main: the extension kept from args.original
    response,        \* main: what client.chat.completions.create returned
    completion_text, \* main: response.choices[0].message.content.strip()
    stdout,          \* main: lines printed to sys.stdout
    stderr           \* main: lines printed to sys.stderr (by kind)

vars == <<pc, filename, sanitized, resanitized, dir, dirSanitized,
          original, original_ext, response, completion_text, stdout, stderr>>

-----------------------------------------------------------------------------
(* Characters and character classes                                        *)

Nul == "\\x00"

\* The backtick, which a TLA+ string cannot hold.
Backtick == "\\x60"

UpperLetters == <<"A","B","C","D","E","F","G","H","I","J","K","L","M",
                  "N","O","P","Q","R","S","T","U","V","W","X","Y","Z">>
LowerLetters == <<"a","b","c","d","e","f","g","h","i","j","k","l","m",
                  "n","o","p","q","r","s","t","u","v","w","x","y","z">>
Digits == {"0","1","2","3","4","5","6","7","8","9"}

Range(f) == {f[i] : i \in DOMAIN f}

\* str.strip() with no argument and the regex class \s: whitespace.
Whitespace == {" ", "\t", "\n", "\r", "\f"}

\* The regex class \w: letters, digits and the underscore.
WordChars == Range(UpperLetters) \cup Range(LowerLetters) \cup Digits \cup {"_"}

\* The characters the pattern [^\w\s\.\-\(\)\[\]] does not match.
KeptChars == WordChars \cup Whitespace \cup {".", "-", "(", ")", "[", "]"}

\* str.upper() on one character.
UpperChar(c) ==
    IF c \in Range(LowerLetters)
    THEN UpperLetters[CHOOSE i \in 1..26 : LowerLetters[i] = c]
    ELSE c

Upper(s) == [i \in 1..Len(s) |-> UpperChar(s[i])]

-----------------------------------------------------------------------------
(* String helpers                                                          *)

\* The first index of s whose character is not in cs (Len(s)+1 if none).
SkipLeft(s, cs) ==
    CHOOSE i \in 1..(Len(s) + 1) :
        /\ i = Len(s) + 1 \/ s[i] \notin cs
        /\ \A j \in 1..(i - 1) : s[j] \in cs

\* The last index of s whose character is not in cs (0 if none).
SkipRight(s, cs) ==
    CHOOSE i \in 0..Len(s) :
        /\ i = 0 \/ s[i] \notin cs
        /\ \A j \in (i + 1)..Len(s) : s[j] \in cs

\* str.strip(chars): drop the leading and trailing characters that are in cs.
StripChars(s, cs) ==
    LET a == SkipLeft(s, cs)
        b == SkipRight(s, cs)
    IN  IF a > b THEN <<>> ELSE SubSeq(s, a, b)

\* str.lstrip(chars)
LstripChars(s, cs) == SubSeq(s, SkipLeft(s, cs), Len(s))

\* str.rfind(c): the last index of c in s, 0 if there is none.
LastIndexOf(s, c) ==
    CHOOSE i \in 0..Len(s) :
        /\ i = 0 \/ s[i] = c
        /\ \A j \in (i + 1)..Len(s) : s[j] # c

\* re.sub(r'[cs]+', r, s): every maximal run of characters of cs becomes r.
SubRuns(s, cs, r) ==
    LET Drop == "drop"
        marked == [i \in 1..Len(s) |->
                     IF s[i] \notin cs THEN s[i]
                     ELSE IF i > 1 /\ s[i-1] \in cs THEN Drop
                     ELSE r]
    IN  SelectSeq(marked, LAMBDA c : c # Drop)

-----------------------------------------------------------------------------
(* sanitize_filename, step by step                                         *)

unnamed_file == <<"u","n","n","a","m","e","d","_","f","i","l","e">>

file_prefix == <<"f","i","l","e","_">>

reserved_names ==
    { <<"C","O","N">>, <<"P","R","N">>, <<"A","U","X">>, <<"N","U","L">> }
    \cup { <<"C","O","M",d>> : d \in Digits \ {"0"} }
    \cup { <<"L","P","T",d>> : d \in Digits \ {"0"} }

MaxFilenameLen == 150

\* filename.strip()
Strip(s) == StripChars(s, Whitespace)

\* Mutant of Basename: the directory part is kept.
BasenameKeepsDirectory(s) == s

\* os.path.basename(filename): what follows the last "/".
Basename(s) == SubSeq(s, LastIndexOf(s, "/") + 1, Len(s))

\* filename.replace('/', '_').replace('\\', '_')
ReplaceSeparators(s) ==
    [i \in 1..Len(s) |-> IF s[i] \in {"/", "\\"} THEN "_" ELSE s[i]]

\* re.sub(r'[^\w\s\.\-\(\)\[\]]+', '_', filename)
ReplaceUnsafe(s) ==
    LET Drop == "drop"
        marked == [i \in 1..Len(s) |->
                     IF s[i] \in KeptChars THEN s[i]
                     ELSE IF i > 1 /\ s[i-1] \notin KeptChars THEN Drop
                     ELSE "_"]
    IN  SelectSeq(marked, LAMBDA c : c # Drop)

\* Mutant of CollapseSpaces: whitespace is left as it is.
CollapseSpacesSkipped(s) == s

\* re.sub(r'\s+', ' ', filename)
CollapseSpaces(s) == SubRuns(s, Whitespace, " ")

\* re.sub(r'_+', '_', filename)
CollapseUnderscores(s) == SubRuns(s, {"_"}, "_")

\* filename.lstrip('.')
LstripDots(s) == LstripChars(s, {"."})

\* if name_upper in reserved_names: filename = f"file_{filename}"
PrefixReserved(s) ==
    IF Upper(s) \in reserved_names THEN file_prefix \o s ELSE s

\* Mutant of Truncate: the slice keeps one character too many.
TruncateOffByOne(s) ==
    IF Len(s) > MaxFilenameLen THEN SubSeq(s, 1, MaxFilenameLen + 1) ELSE s

\* if len(filename) > 150: filename = filename[:150]
Truncate(s) ==
    IF Len(s) > MaxFilenameLen THEN SubSeq(s, 1, MaxFilenameLen) ELSE s

\* Mutant of StripBoundary: the hyphen is missing from the stripped set.
StripBoundaryNoHyphen(s) == StripChars(s, {".", "_", " "})

\* filename.strip('._- ')
StripBoundary(s) == StripChars(s, {".", "_", "-", " "})

\* if not filename: return "unnamed_file"
OrDefault(s) == IF s = <<>> THEN unnamed_file ELSE s

\* Lines 109-126: everything up to the first emptiness check.
Cleaned(name) ==
    LstripDots(CollapseUnderscores(CollapseSpaces(
        ReplaceUnsafe(ReplaceSeparators(Basename(Strip(name)))))))

\* Mutant of sanitize_filename: the three "unnamed_file" fallbacks are missing.
sanitize_filename_no_fallback(name) ==
    StripBoundary(Truncate(PrefixReserved(Cleaned(name))))

sanitize_filename(name) ==
    IF name = <<>> THEN unnamed_file
    ELSE LET cleaned == Cleaned(name)
         IN  IF cleaned = <<>> THEN unnamed_file
             ELSE OrDefault(StripBoundary(Truncate(PrefixReserved(cleaned))))

-----------------------------------------------------------------------------
(* Inputs                                                                  *)

MaxLen == 4        \* every string over Alphabet up to this length is an input
MaxAffix == 1      \* length of what is put around a reserved name or a long run
Slack == 2         \* long inputs have MaxFilenameLen - Slack .. + Slack repeats

Alphabet == {"/", "\\", ".", "_", "-", " ", "\t", ";", "a"}

AffixChars == {".", "_", " ", "/"}

StringsUpTo(cs, n) == UNION { [1..k -> cs] : k \in 0..n }

Rep(c, n) == [i \in 1..n |-> c]

LowerChar(c) ==
    IF c \in Range(UpperLetters)
    THEN LowerLetters[CHOOSE i \in 1..26 : UpperLetters[i] = c]
    ELSE c

Lower(s) == [i \in 1..Len(s) |-> LowerChar(s[i])]

\* A reserved name in upper case, in lower case, and capitalised.
ReservedSpellings ==
    UNION { {r, Lower(r), <<r[1]>> \o Lower(Tail(r))} : r \in reserved_names }

Txt == <<".", "t", "x", "t">>

ShortInputs == StringsUpTo(Alphabet, MaxLen)

ReservedInputs ==
    { pre \o r \o suf : pre \in StringsUpTo(AffixChars, MaxAffix),
                        r \in ReservedSpellings,
                        suf \in StringsUpTo(AffixChars, MaxAffix) \cup {Txt} }

LongInputs ==
    { pre \o Rep(c, n) \o suf :
        pre \in StringsUpTo(AffixChars, MaxAffix),
        c \in {"A", ".", " "},
        n \in (MaxFilenameLen - Slack)..(MaxFilenameLen + Slack),
        suf \in StringsUpTo(AffixChars, MaxAffix) \cup {Txt} }

\* The inputs of test_security.py's test_cases.
TestCases ==
    { <<".",".","/",".",".","/",".",".","/","e","t","c","/","p","a","s","s","w","d">>,
      <<".",".","\\",".",".","\\","w","i","n","d","o","w","s","\\","s","y","s","t","e","m","3","2","\\","c","o","n","f","i","g">>,
      <<"/","e","t","c","/","s","h","a","d","o","w">>,
      <<".","/",".",".","/",".",".","/","s","e","n","s","i","t","i","v","e",".","t","x","t">>,
      <<"f","i","l","e",";","r","m"," ","-","r","f"," ","/">>,
      <<"f","i","l","e","|","c","a","t"," ","/","e","t","c","/","p","a","s","s","w","d">>,
      <<"f","i","l","e"," ","&","&"," ","r","m"," ","-","r","f"," ","~">>,
      <<"f","i","l","e",Backtick,"r","m"," ","-","r","f"," ","/",Backtick>>,
      <<"f","i","l","e","$","(","r","m"," ","-","r","f"," ","/",")">>,
      <<"f","i","l","e","$","U","S","E","R",".","t","x","t">>,
      <<"f","i","l","e","<","s","c","r","i","p","t",">","a","l","e","r","t","(","1",")","<","/","s","c","r","i","p","t",">",".","t","x","t">>,
      <<"f","i","l","e",Nul,"n","u","l","l",".","t","x","t">>,
      <<"f","i","l","e","\n","\r",".","t","x","t">>,
      <<"C","O","N",".","t","x","t">>,
      <<"P","R","N",".","l","o","g">>,
      <<"A","U","X">>,
      <<".","h","i","d","d","e","n","_","f","i","l","e",".","t","x","t">>,
      <<".",".","h","i","d","d","e","n">>,
      Rep("A", 300) \o Txt,
      <<>>,
      <<" "," "," ">>,
      <<".",".",".">>,
      <<"D","o","c","u","m","e","n","t","_","2","0","2","4","-","0","1","-","1","5",".","p","d","f">>,
      <<"M","e","e","t","i","n","g"," ","N","o","t","e","s"," ","(","J","a","n"," ","2","0","2","4",")",".","t","x","t">>,
      <<"R","e","p","o","r","t","-","F","i","n","a","l","_","v","2",".","d","o","c","x">>,
      <<"F","i","l","e"," ","w","i","t","h"," ","m","u","l","t","i","p","l","e"," "," "," "," ","s","p","a","c","e","s",".","t","x","t">> }

Inputs == ShortInputs \cup ReservedInputs \cup LongInputs \cup TestCases

\* Directory prefixes: absolute path, parent directory, a plain directory,
\* and a nested one with blanks around it.
Dirs == { <<>>, <<".", ".">>, <<"e", "t", "c">>,
          <<" ", ".", ".", "/", "a", " ">> }

-----------------------------------------------------------------------------
(* test_sanitization: the sanitizer applied to a test input                *)

InitMainIdle ==
    /\ original = <<>>
    /\ original_ext = <<>>
    /\ response = [kind |-> "none"]
    /\ completion_text = <<>>
    /\ stdout = <<>>
    /\ stderr = <<>>

mainVars == <<original, original_ext, response, completion_text, stdout, stderr>>

Init ==
    /\ pc = "input"
    /\ filename \in Inputs
    /\ sanitized = <<>>
    /\ resanitized = <<>>
    /\ dir = <<>>
    /\ dirSanitized = <<>>
    /\ InitMainIdle

\* sanitized = sanitize_filename(malicious_input)
Sanitize ==
    /\ pc = "input"
    /\ sanitized' = sanitize_filename(filename)
    /\ pc' = "sanitized"
    /\ UNCHANGED <<filename, resanitized, dir, dirSanitized, mainVars>>

\* The sanitizer applied to its own output.
Resanitize ==
    /\ pc = "sanitized"
    /\ resanitized' = sanitize_filename(sanitized)
    /\ pc' = "resanitized"
    /\ UNCHANGED <<filename, sanitized, dir, dirSanitized, mainVars>>

\* The sanitizer applied to the same input below a directory.
SanitizeInDir ==
    /\ pc = "resanitized"
    /\ \E p \in Dirs :
         /\ dir' = p
         /\ dirSanitized' = sanitize_filename(p \o <<"/">> \o filename)
    /\ pc' = "done"
    /\ UNCHANGED <<filename, sanitized, resanitized, mainVars>>

Next == Sanitize \/ Resanitize \/ SanitizeInDir

Spec == Init /\ [][Next]_vars

-----------------------------------------------------------------------------
(* main: one run of the command-line tool                                  *)

MaxOrigLen == 4    \* every string over OrigChars up to this length is an original
MaxSuggestLen == 2 \* every string over SuggestChars up to this length is suggested

OrigChars == {"a", ".", "/"}

SuggestChars == {"a", ".", "/", " ", ";"}

ReportPdf == <<"r","e","p","o","r","t",".","p","d","f">>

Notes == <<"n","o","t","e","s">>

Q1FinancialSummary ==
    <<"Q","1"," ","F","i","n","a","n","c","i","a","l"," ","S","u","m","m","a","r","y">>

Originals ==
    StringsUpTo(OrigChars, MaxOrigLen)
    \cup { ReportPdf, Notes, <<"a","r","c","h","i","v","e",".","t","a","r",".","g","z">> }

Suggestions ==
    StringsUpTo(SuggestChars, MaxSuggestLen)
    \cup { Q1FinancialSummary, <<"C","O","N">>, <<" ","c","o","n",".","\n">>,
           Rep("A", MaxFilenameLen + 1) }

\* What client.chat.completions.create can return: a completion with its
\* usage, or a response whose usage or whose message content is None.
Responses ==
    { [kind |-> "ok", content |-> c] : c \in Suggestions }
    \cup { [kind |-> "no_usage"], [kind |-> "no_content"] }

\* os.path.splitext(p): the extension starts at the last dot of the last
\* path component, unless only dots precede it there.
splitext(p) ==
    LET sep == LastIndexOf(p, "/")
        dot == LastIndexOf(p, ".")
    IN  IF dot > sep /\ \E k \in (sep + 1)..(dot - 1) : p[k] # "."
        THEN <<SubSeq(p, 1, dot - 1), SubSeq(p, dot, Len(p))>>
        ELSE <<p, <<>>>>

\* Mutant of OriginalExt: no default when the original has no extension.
OriginalExtNoDefault(orig) == splitext(orig)[2]

\* original_name, original_ext = os.path.splitext(args.original)
\* if not original_ext: original_ext = ".txt"
OriginalExt(orig) ==
    LET ext == splitext(orig)[2]
    IN  IF ext = <<>> THEN Txt ELSE ext

\* The lines get_current_pricing and main print to stderr about the usage;
\* tokencost may be missing (silent fallback) or fail (a warning line).
UsageLines(tokencost) ==
    (IF tokencost = "error" THEN <<"tokencost_error">> ELSE <<>>)
    \o <<"token_usage", "input_tokens", "output_tokens", "total_tokens",
         "cost", "input_cost", "output_cost", "total_cost">>

\* The notice printed when sanitization changed the suggestion.
SanitizedLines(before, after) ==
    IF before # after
    THEN <<"security", "security_original", "security_sanitized">>
    ELSE <<>>

\* final_filename = sanitized_filename + original_ext
FinalFilename(name, ext) == name \o ext

sanitizerVars == <<filename, resanitized, dir, dirSanitized>>

InitMain ==
    /\ pc = "main"
    /\ original \in Originals
    /\ original_ext = <<>>
    /\ response = [kind |-> "none"]
    /\ completion_text = <<>>
    /\ stdout = <<>>
    /\ stderr = <<>>
    /\ filename = <<>>
    /\ sanitized = <<>>
    /\ resanitized = <<>>
    /\ dir = <<>>
    /\ dirSanitized = <<>>

\* parser.parse_args() rejects the command line: usage on stderr, exit 2.
ArgsRejected ==
    /\ pc = "main"
    /\ stderr' = Append(stderr, "usage")
    /\ pc' = "failed"
    /\ UNCHANGED <<original, original_ext, response, completion_text, stdout,
                   sanitized, sanitizerVars>>

\* OpenAI(api_key=None): no credentials, the constructor raises.
NoCredentials ==
    /\ pc = "main"
    /\ stderr' = Append(stderr, "traceback")
    /\ pc' = "failed"
    /\ UNCHANGED <<original, original_ext, response, completion_text, stdout,
                   sanitized, sanitizerVars>>

\* Lines 158-191: arguments parsed, client built, extension split off,
\* prompt built.
Prepare ==
    /\ pc = "main"
    /\ original_ext' = OriginalExt(original)
    /\ pc' = "request"
    /\ UNCHANGED <<original, response, completion_text, stdout, stderr,
                   sanitized, sanitizerVars>>

\* Mutant of RequestFails: the failure is caught and the original name is
\* printed as the result.
RequestFailsPrintsOriginal ==
    /\ pc = "request"
    /\ stderr' = Append(stderr, "traceback")
    /\ stdout' = Append(stdout, original)
    /\ pc' = "failed"
    /\ UNCHANGED <<original, original_ext, response, completion_text,
                   sanitized, sanitizerVars>>

\* client.chat.completions.create raises (network error, API error).
RequestFails ==
    /\ pc = "request"
    /\ stderr' = Append(stderr, "traceback")
    /\ pc' = "failed"
    /\ UNCHANGED <<original, original_ext, response, completion_text, stdout,
                   sanitized, sanitizerVars>>

\* client.chat.completions.create returns.
RequestReturns ==
    /\ pc = "request"
    /\ response' \in Responses
    /\ pc' = "response"
    /\ UNCHANGED <<original, original_ext, completion_text, stdout, stderr,
                   sanitized, sanitizerVars>>

\* Lines 201-207 on a malformed response: usage.prompt_tokens or
\* content.strip() raises AttributeError.
MalformedResponse ==
    /\ pc = "response"
    /\ response.kind # "ok"
    /\ stderr' = Append(stderr, "traceback")
    /\ pc' = "failed"
    /\ UNCHANGED <<original, original_ext, response, completion_text, stdout,
                   sanitized, sanitizerVars>>

\* Lines 201-234: usage and cost reported, the suggestion sanitized, the
\* notices printed; everything goes to stderr.
Diagnose ==
    /\ pc = "response"
    /\ response.kind = "ok"
    /\ completion_text' = Strip(response.content)
    /\ sanitized' = sanitize_filename(completion_text')
    /\ \E tokencost \in {"ok", "missing", "error"} :
         stderr' = stderr \o UsageLines(tokencost)
                          \o SanitizedLines(completion_text', sanitized')
                          \o <<"extension">>
    /\ pc' = "print"
    /\ UNCHANGED <<original, original_ext, response, stdout, sanitizerVars>>

\* print(final_filename)
Emit ==
    /\ pc = "print"
    /\ stdout' = Append(stdout, FinalFilename(sanitized, original_ext))
    /\ pc' = "done"
    /\ UNCHANGED <<original, original_ext, response, completion_text, stderr,
                   sanitized, sanitizerVars>>

NextMain ==
    \/ ArgsRejected
    \/ NoCredentials
    \/ Prepare
    \/ RequestFails
    \/ RequestReturns
    \/ MalformedResponse
    \/ Diagnose
    \/ Emit

SpecMain == InitMain /\ [][NextMain]_vars

-----------------------------------------------------------------------------
(* Properties of sanitize_filename, checked under Spec                     *)

\* Every result the sanitizer has produced in this state.
Outputs ==
    (IF pc # "input" THEN {sanitized} ELSE {})
    \cup (IF pc \in {"resanitized", "done"} THEN {resanitized} ELSE {})
    \cup (IF pc = "done" THEN {dirSanitized} ELSE {})

BoundaryChars == {".", "_", "-", " "}

\* Whether sanitizing name cuts it at the 150-character limit.
HitsTruncation(name) ==
    name # <<>> /\ Len(PrefixReserved(Cleaned(name))) > MaxFilenameLen

\* C1: every output is non-empty, holds neither "/" nor "\", and neither
\* starts nor ends with ".", "_", "-" or a space.
C1_WellFormed ==
    \A o \in Outputs :
        /\ o # <<>>
        /\ \A i \in 1..Len(o) : o[i] \notin {"/", "\\"}
        /\ o[1] \notin BoundaryChars
        /\ o[Len(o)] \notin BoundaryChars

\* An adversarial input (separators, a leading dot, a trailing hyphen) has
\* been sanitized.
C1_Witness ==
    /\ pc = "sanitized"
    /\ filename = <<"/", "\\", "a", "-">>
    /\ sanitized = <<"a">>

\* C2: no output equals, ignoring case, a reserved device name.
C2_NeverReserved ==
    \A o \in Outputs : Upper(o) \notin reserved_names

\* C3: when the first pass did not hit the 150-character truncation,
\* sanitizing the output again returns it unchanged.
C3_Idempotent ==
    (pc \in {"resanitized", "done"} /\ ~HitsTruncation(filename))
        => resanitized = sanitized

\* C4: a reserved name in any letter case, alone or followed by ".txt",
\* comes back as "file_" followed by the unchanged input.
C4_ReservedPrefixed ==
    (/\ pc # "input"
     /\ \E r \in ReservedSpellings : filename = r \/ filename = r \o Txt)
        => sanitized = <<"f", "i", "l", "e", "_">> \o filename

\* C5: every output has at most 150 characters.
C5_LengthBound ==
    \A o \in Outputs : Len(o) <= 150

\* An input longer than the limit has been cut to exactly 150 characters.
C5_Witness ==
    /\ pc = "sanitized"
    /\ Len(filename) > 150
    /\ Len(sanitized) = 150

\* C6: every character of an output is a word character, a plain space or
\* one of . - ( ) [ ], and no two spaces and no two underscores are adjacent.
C6_SafeCharacters ==
    \A o \in Outputs :
        /\ \A i \in 1..Len(o) :
             o[i] \in WordChars \cup {" ", ".", "-", "(", ")", "[", "]"}
        /\ \A i \in 1..(Len(o) - 1) :
             ~(o[i] = " " /\ o[i+1] = " ") /\ ~(o[i] = "_" /\ o[i+1] = "_")

\* The newline-injection test input has been sanitized: newline and carriage
\* return became one space.
C6_Witness ==
    /\ pc = "sanitized"
    /\ filename = <<"f","i","l","e","\n","\r",".","t","x","t">>
    /\ sanitized = <<"f","i","l","e"," ",".","t","x","t">>

\* C7: the empty string, a string of whitespace only and a string of dots
\* only all give exactly "unnamed_file".
C7_Sentinel ==
    (/\ pc # "input"
     /\ \/ \A i \in 1..Len(filename) : filename[i] \in Whitespace
        \/ \A i \in 1..Len(filename) : filename[i] = ".")
        => sanitized = <<"u","n","n","a","m","e","d","_","f","i","l","e">>

\* The all-dots input "..." has been sanitized to the sentinel.
C7_Witness ==
    /\ pc = "sanitized"
    /\ filename = <<".", ".", ".">>
    /\ sanitized = unnamed_file

\* C10 as stated: for an input t without "/", sanitizing dir + "/" + t gives
\* what sanitizing t gives.
C10_BasenamePolicy ==
    (pc = "done" /\ "/" \notin Range(filename))
        => dirSanitized = sanitized

\* C10 amended: the same, for an input t without "/" that does not begin
\* with whitespace.
C10_BasenamePolicyNoLeadingBlank ==
    (/\ pc = "done"
     /\ "/" \notin Range(filename)
     /\ filename = <<>> \/ filename[1] \notin Whitespace)
        => dirSanitized = sanitized

\* A name with trailing whitespace has been sanitized alone and below "..",
\* with the same result.
C10_Witness ==
    /\ pc = "done"
    /\ dir = <<".", ".">>
    /\ filename = <<"a", ".", "\t">>
    /\ dirSanitized = <<"a">>
    /\ sanitized = <<"a">>

-----------------------------------------------------------------------------
(* Properties of main, checked under SpecMain                              *)

\* C8: the one line on stdout is the sanitized suggestion followed by the
\* original's extension, ".txt" when the original has none; the extension
\* is never empty and begins with ".".
C8_CallerComposition ==
    pc = "done" =>
        LET ext == splitext(original)[2]
            expected == IF ext = <<>> THEN <<".", "t", "x", "t">> ELSE ext
        IN  /\ original_ext = expected
            /\ original_ext # <<>>
            /\ original_ext[1] = "."
            /\ stdout = <<sanitize_filename(response.content) \o expected>>

\* The end-to-end example: "report.pdf" and "Q1 Financial Summary".
C8_Witness ==
    /\ pc = "done"
    /\ original = ReportPdf
    /\ response = [kind |-> "ok", content |-> Q1FinancialSummary]
    /\ stdout = <<Q1FinancialSummary \o <<".", "p", "d", "f">>>>

=============================================================================
